---- MODULE Spec2Model ----
(***************************************************************************)
(* A model of the GCSF TypeScript reference runner                         *)
(* (src/runners/ts/runner.ts): the flattener (flattenGroups), the          *)
(* evaluator (run, runTest, hasSpecialValues) and the comparator (compare, *)
(* deepEqual, approxEqual, approxEqualWithAbsTolerance).                   *)
(*                                                                         *)
(* JavaScript values are tagged records [t, v].  Numbers of the model are  *)
(* small integers, a subset of the doubles on which the runner's           *)
(* arithmetic is exact.  An object is the sequence of its <<key, value>>   *)
(* properties in enumeration order (keys are unique and not integer-like,  *)
(* so enumeration order is insertion order).  Two values built by          *)
(* different calls are never the same reference.                           *)
(***************************************************************************)
EXTENDS Integers, Sequences, FiniteSets, TLC

VARIABLES spec, implementation, pc, flatTests, results, trace, args, ret

vars == <<spec, implementation, pc, flatTests, results, trace, args, ret>>

----------------------------------------------------------------------------
(* JavaScript values *)

Undefined == [t |-> "undefined", v |-> 0]
Null == [t |-> "null", v |-> 0]
Num(n) == [t |-> "number", v |-> n]
\* NaN, Infinity, -Infinity: numbers for typeof, not finite
NonFinite(s) == [t |-> "nonfinite", v |-> s]
Str(s) == [t |-> "string", v |-> s]
Bool(b) == [t |-> "boolean", v |-> b]
Arr(s) == [t |-> "array", v |-> s]
Obj(s) == [t |-> "object", v |-> s]

\* the typeof operator
TypeOf(x) ==
  CASE x.t \in {"number", "nonfinite"} -> "number"
    [] x.t \in {"null", "array", "object"} -> "object"
    [] OTHER -> x.t

IsNumber(x) == TypeOf(x) = "number"

\* typeof x === "object" && x !== null
IsObjectLike(x) == x.t \in {"array", "object"}

\* ToBoolean, as used by if (x), x || y, c ? a : b
Truthy(x) ==
  CASE x.t \in {"undefined", "null"} -> FALSE
    [] x.t = "boolean" -> x.v
    [] x.t = "number" -> x.v # 0
    [] x.t = "nonfinite" -> x.v # "NaN"
    [] x.t = "string" -> x.v # ""
    [] OTHER -> TRUE

\* x ?? y
Nullish(x) == x.t \in {"undefined", "null"}

\* a === b; two objects or arrays are never the same reference here
StrictEquals(a, b) ==
  CASE a.t \in {"array", "object"} -> FALSE
    [] a.t = "nonfinite" -> a.t = b.t /\ a.v = b.v /\ a.v # "NaN"
    [] OTHER -> a.t = b.t /\ a.v = b.v

\* Math.abs
Abs(n) == IF n < 0 THEN -n ELSE n

\* the order of Array.prototype.sort() on the property names of the model
KeyOrder == <<"a", "b">>

\* Object.keys(x).sort(): index names of an array, property names of an object
SortedKeys(x) ==
  IF x.t = "array"
  THEN [i \in 1..Len(x.v) |-> ToString(i - 1)]
  ELSE LET has(k) == \E i \in 1..Len(x.v) : x.v[i][1] = k
           F[n \in 0..Len(KeyOrder)] ==
             IF n = 0 THEN <<>>
             ELSE IF has(KeyOrder[n]) THEN Append(F[n - 1], KeyOrder[n])
                  ELSE F[n - 1]
       IN  F[Len(KeyOrder)]

\* x[key] of an array or an object; undefined when there is no such property
Get(x, key) ==
  IF x.t = "array"
  THEN IF \E i \in 1..Len(x.v) : ToString(i - 1) = key
       THEN x.v[CHOOSE i \in 1..Len(x.v) : ToString(i - 1) = key]
       ELSE Undefined
  ELSE IF x.t = "object" /\ \E i \in 1..Len(x.v) : x.v[i][1] = key
       THEN x.v[CHOOSE i \in 1..Len(x.v) : x.v[i][1] = key][2]
       ELSE Undefined

\* Object.values(x)
ObjectValues(x) ==
  IF x.t = "array" THEN x.v ELSE [i \in 1..Len(x.v) |-> x.v[i][2]]

\* keysA.length === keysB.length && keysA.every((k, i) => k === keysB[i])
SameKeys(keysA, keysB) ==
  /\ Len(keysA) = Len(keysB)
  /\ \A i \in 1..Len(keysA) : keysA[i] = keysB[i]

Quote(s) == "\"" \o s \o "\""

RECURSIVE JoinStr(_)
\* parts.join(",")
JoinStr(parts) ==
  IF Len(parts) = 0 THEN ""
  ELSE IF Len(parts) = 1 THEN parts[1]
  ELSE parts[1] \o "," \o JoinStr(Tail(parts))

RECURSIVE JSONstringify(_)
\* JSON.stringify(x): a string, or undefined for undefined
JSONstringify(x) ==
  CASE x.t = "undefined" -> Undefined
    [] x.t = "null" -> Str("null")
    [] x.t = "nonfinite" -> Str("null")
    [] x.t = "number" -> Str(ToString(x.v))
    [] x.t = "boolean" -> Str(IF x.v THEN "true" ELSE "false")
    [] x.t = "string" -> Str(Quote(x.v))
    [] x.t = "array" ->
         LET part(e) == IF e.t = "undefined" THEN "null" ELSE JSONstringify(e).v
         IN  Str("[" \o JoinStr([i \in 1..Len(x.v) |-> part(x.v[i])]) \o "]")
    [] x.t = "object" ->
         LET kept == SelectSeq(x.v, LAMBDA p : p[2].t # "undefined")
             part(p) == Quote(p[1]) \o ":" \o JSONstringify(p[2]).v
         IN  Str("{" \o JoinStr([i \in 1..Len(kept) |-> part(kept[i])]) \o "}")

----------------------------------------------------------------------------
(* Comparator.  It is applied to finite numbers only: runTest rejects a    *)
(* non-finite output before comparing, and an expected value is JSON.      *)

RECURSIVE deepEqual(_, _)
deepEqual(a, b) ==
  IF StrictEquals(a, b) THEN TRUE
  ELSE IF Nullish(a) \/ Nullish(b) THEN FALSE
  ELSE IF TypeOf(a) # TypeOf(b) THEN FALSE
  ELSE IF a.t = "array" /\ b.t = "array"
  THEN /\ Len(a.v) = Len(b.v)
       /\ \A i \in 1..Len(a.v) : deepEqual(a.v[i], b.v[i])
  ELSE IF TypeOf(a) = "object" /\ TypeOf(b) = "object"
  THEN LET keysA == SortedKeys(a)
           keysB == SortedKeys(b)
       IN  /\ SameKeys(keysA, keysB)
           /\ \A i \in 1..Len(keysA) :
                deepEqual(Get(a, keysA[i]), Get(b, keysA[i]))
  ELSE FALSE

RECURSIVE approxEqualWithAbsTolerance(_, _, _)
approxEqualWithAbsTolerance(a, b, tolerance) ==
  IF a.t = "number" /\ b.t = "number"
  THEN Abs(a.v - b.v) <= tolerance.v
  ELSE IF IsObjectLike(a) /\ IsObjectLike(b)
  THEN LET keysA == SortedKeys(a)
           keysB == SortedKeys(b)
       IN  /\ SameKeys(keysA, keysB)
           /\ \A i \in 1..Len(keysA) :
                approxEqualWithAbsTolerance(Get(a, keysA[i]), Get(b, keysA[i]),
                                            tolerance)
  ELSE deepEqual(a, b)

\* a mutant of withinBounds: one satisfied bound is enough
withinBounds_either(a, b, abs, rel) ==
  \/ abs.t = "undefined" /\ rel.t = "undefined"
  \/ abs.t # "undefined" /\ Abs(a.v - b.v) <= abs.v
  \/ rel.t # "undefined" /\ Abs(a.v - b.v) <= Abs(b.v) * rel.v

\* approxEqual, lines 283-286: two numbers against { abs, rel }
withinBounds(a, b, abs, rel) ==
  IF abs.t # "undefined" /\ Abs(a.v - b.v) > abs.v THEN FALSE
  ELSE IF rel.t # "undefined" /\ Abs(a.v - b.v) > Abs(b.v) * rel.v THEN FALSE
  ELSE TRUE

RECURSIVE approxEqual(_, _, _)
approxEqual(a, b, tolerance) ==
  IF tolerance.t = "number"
  THEN approxEqualWithAbsTolerance(a, b, tolerance)
  ELSE LET abs == Get(tolerance, "abs")
           rel == Get(tolerance, "rel")
           fields == Get(tolerance, "fields")
       IN  IF a.t = "number" /\ b.t = "number"
           THEN withinBounds(a, b, abs, rel)
           ELSE IF IsObjectLike(a) /\ IsObjectLike(b)
           THEN LET keysA == SortedKeys(a)
                    keysB == SortedKeys(b)
                    fieldTolerance(key) ==
                      IF Nullish(fields) \/ Nullish(Get(fields, key))
                      THEN tolerance
                      ELSE Get(fields, key)
                IN  /\ SameKeys(keysA, keysB)
                    /\ \A i \in 1..Len(keysA) :
                         LET key == keysA[i]
                         IN  IF Get(a, key).t = "number" /\ Get(b, key).t = "number"
                             THEN approxEqual(Get(a, key), Get(b, key),
                                              fieldTolerance(key))
                             ELSE deepEqual(Get(a, key), Get(b, key))
           ELSE deepEqual(a, b)

\* a mutant of compare: strict mode ignores the order of keys
compare_strictUnordered(actual, expected, mode, tolerance) ==
  IF mode = "approx" THEN approxEqual(actual, expected, tolerance)
  ELSE deepEqual(actual, expected)

compare(actual, expected, mode, tolerance) ==
  IF mode = "strict"
  THEN StrictEquals(JSONstringify(actual), JSONstringify(expected))
  ELSE IF mode = "deep" THEN deepEqual(actual, expected)
  ELSE IF mode = "approx" THEN approxEqual(actual, expected, tolerance)
  ELSE FALSE

----------------------------------------------------------------------------
(* Flattener *)

\* a mutant of Spread: the inherited defaults win over the group's own
Spread_parentWins(x, y) ==
  LET xs == IF x.t = "object" THEN x.v ELSE <<>>
      ys == IF y.t = "object" THEN y.v ELSE <<>>
      inX(k) == \E j \in 1..Len(xs) : xs[j][1] = k
  IN  Obj(xs \o SelectSeq(ys, LAMBDA p : ~inX(p[1])))

\* { ...x, ...y }: the properties of x, overridden or followed by those of y;
\* spreading undefined adds nothing
Spread(x, y) ==
  LET xs == IF x.t = "object" THEN x.v ELSE <<>>
      ys == IF y.t = "object" THEN y.v ELSE <<>>
      inY(k) == \E j \in 1..Len(ys) : ys[j][1] = k
      inX(k) == \E j \in 1..Len(xs) : xs[j][1] = k
      kept == [i \in 1..Len(xs) |->
                 IF inY(xs[i][1]) THEN <<xs[i][1], Get(y, xs[i][1])>> ELSE xs[i]]
  IN  Obj(kept \o SelectSeq(ys, LAMBDA p : ~inX(p[1])))

\* x || y
OrElse(x, y) == IF Truthy(x) THEN x ELSE y

\* x ?? y
Coalesce(x, y) == IF Nullish(x) THEN y ELSE x

\* { ...test, groupPath, resolvedCompare, resolvedTolerance }
FlatTest(test, groupPath, resolvedCompare, resolvedTolerance) ==
  [id |-> test.id, op |-> test.op, input |-> test.input,
   expected |-> test.expected, compare |-> test.compare,
   tolerance |-> test.tolerance, xfail |-> test.xfail, skip |-> test.skip,
   groupPath |-> groupPath, resolvedCompare |-> resolvedCompare,
   resolvedTolerance |-> resolvedTolerance]

\* a mutant of resolveTest: the compare mode is not inherited
resolveTest_ownCompare(test, currentPath, mergedDefaults) ==
  FlatTest(test, currentPath, OrElse(test.compare, Str("strict")),
           Coalesce(test.tolerance, Get(mergedDefaults, "tolerance")))

\* the body of "for (const test of group.tests)"
resolveTest(test, currentPath, mergedDefaults) ==
  LET resolvedCompare ==
        OrElse(test.compare, OrElse(Get(mergedDefaults, "compare"), Str("strict")))
      resolvedTolerance ==
        Coalesce(test.tolerance, Get(mergedDefaults, "tolerance"))
  IN  FlatTest(test, currentPath, resolvedCompare, resolvedTolerance)

RECURSIVE flattenGroups(_, _, _)
\* a mutant of flattenGroups: a group's own cases come before those of its
\* child groups
flattenGroups_ownFirst(groups, groupPath, parentDefaults) ==
  IF Len(groups) = 0 THEN <<>>
  ELSE LET group == Head(groups)
           currentPath == Append(groupPath, group.group)
           mergedDefaults == Spread(parentDefaults, group.defaults)
           nested == IF Truthy(group.groups)
                     THEN flattenGroups(group.groups.v, currentPath, mergedDefaults)
                     ELSE <<>>
           own == IF Truthy(group.tests)
                  THEN [i \in 1..Len(group.tests.v) |->
                          resolveTest(group.tests.v[i], currentPath, mergedDefaults)]
                  ELSE <<>>
       IN  own \o nested \o flattenGroups(Tail(groups), groupPath, parentDefaults)

flattenGroups(groups, groupPath, parentDefaults) ==
  IF Len(groups) = 0 THEN <<>>
  ELSE LET group == Head(groups)
           currentPath == Append(groupPath, group.group)
           mergedDefaults == Spread(parentDefaults, group.defaults)
           nested == IF Truthy(group.groups)
                     THEN flattenGroups(group.groups.v, currentPath, mergedDefaults)
                     ELSE <<>>
           own == IF Truthy(group.tests)
                  THEN [i \in 1..Len(group.tests.v) |->
                          resolveTest(group.tests.v[i], currentPath, mergedDefaults)]
                  ELSE <<>>
       IN  nested \o own \o flattenGroups(Tail(groups), groupPath, parentDefaults)

----------------------------------------------------------------------------
(* Evaluator *)

RECURSIVE hasSpecialValues(_)
\* a mutant of hasSpecialValues: the values of an object or array are tested
\* but not searched
hasSpecialValues_oneLevel(value) ==
  IF TypeOf(value) = "number" THEN value.t = "nonfinite"
  ELSE IF TypeOf(value) = "object" /\ value.t # "null"
  THEN LET vs == ObjectValues(value)
       IN  \E i \in 1..Len(vs) : vs[i].t = "nonfinite"
  ELSE FALSE

hasSpecialValues(value) ==
  IF TypeOf(value) = "number" THEN value.t = "nonfinite"
  ELSE IF TypeOf(value) = "object" /\ value.t # "null"
  THEN LET vs == ObjectValues(value)
       IN  \E i \in 1..Len(vs) : hasSpecialValues(vs[i])
  ELSE FALSE

\* `${x}` of the result of JSON.stringify
Template(x) == IF x.t = "undefined" THEN "undefined" ELSE x.v

TestResult(test, status, message, actual) ==
  [test |-> test, status |-> status, message |-> message, actual |-> actual]

Returned(result, events) == [kind |-> "return", result |-> result, events |-> events]
Thrown(message, events) == [kind |-> "throw", message |-> message, events |-> events]

\* a mutant of verdict: xfail does not invert
verdict_noInversion(xfail, matches) == IF matches THEN "PASS" ELSE "FAIL"

\* runTest, lines 186-192: const status = test.xfail ? ... : ...
verdict(xfail, matches) ==
  IF Truthy(xfail)
  THEN (IF matches THEN "FAIL" ELSE "PASS")
  ELSE (IF matches THEN "PASS" ELSE "FAIL")

\* the try block of runTest: a returned TestResult or a thrown exception, with
\* the registry accesses made on the way
runTestTry(impl, test) ==
  LET opFunc == impl[test.op]
      looked == <<[event |-> "lookup", op |-> test.op]>>
      called == Append(looked, [event |-> "invoke", op |-> test.op])
  IN  IF ~Truthy(opFunc)
      THEN Returned(TestResult(test, "ERROR",
                      Str("Operation '" \o test.op \o "' not found in implementation"),
                      Undefined), looked)
      ELSE LET outcome == opFunc.v[test.input]
           IN  IF outcome.kind = "throw"
               THEN Thrown(outcome.message, called)
               ELSE LET actual == outcome.value
                    IN  IF hasSpecialValues(actual)
                        THEN Returned(TestResult(test, "ERROR",
                               Str("Implementation returned NaN or Infinity (forbidden in GCSF v1)"),
                               actual), called)
                        ELSE IF test.resolvedCompare = Str("approx")
                                /\ test.resolvedTolerance.t = "undefined"
                        THEN Returned(TestResult(test, "ERROR",
                               Str("compare=\"approx\" requires tolerance to be set"),
                               Undefined), called)
                        ELSE LET matches == compare(actual, test.expected,
                                                    test.resolvedCompare.v,
                                                    test.resolvedTolerance)
                                 status == verdict(test.xfail, matches)
                                 message ==
                                   IF status = "FAIL"
                                   THEN Str("Expected "
                                            \o Template(JSONstringify(test.expected))
                                            \o ", got "
                                            \o Template(JSONstringify(actual)))
                                   ELSE Undefined
                             IN  Returned(TestResult(test, status, message, actual),
                                          called)

\* a mutant of runTestCatch: the exception is not caught
runTestCatch_rethrow(test, tried) == tried

\* catch (error) { return ERROR with `Exception: ${error.message}` }
runTestCatch(test, tried) ==
  IF tried.kind = "throw"
  THEN Returned(TestResult(test, "ERROR", Str("Exception: " \o tried.message),
                           Undefined), tried.events)
  ELSE tried

runTest(impl, test) ==
  IF Truthy(test.skip)
  THEN Returned(TestResult(test, "SKIP", test.skip, Undefined), <<>>)
  ELSE runTestCatch(test, runTestTry(impl, test))

----------------------------------------------------------------------------
(* The run: new GCSFRunner(specPath, implementation).run() *)

\* run(), line 79: flatten the whole specification before any case is run
Flatten ==
  /\ pc = "start"
  /\ flatTests' = flattenGroups(spec.groups, <<>>, spec.defaults)
  /\ pc' = "loop"
  /\ UNCHANGED <<spec, implementation, results, trace, args, ret>>

\* run(), lines 86-88: one iteration of the loop; an exception that runTest
\* lets through leaves run() and no result is returned
RunNext ==
  /\ pc = "loop"
  /\ Len(results) < Len(flatTests)
  /\ LET i == Len(results) + 1
         out == runTest(implementation, flatTests[i])
     IN  /\ trace' = trace \o [k \in 1..Len(out.events) |->
                                 [case |-> i, event |-> out.events[k].event,
                                  op |-> out.events[k].op]]
         /\ IF out.kind = "throw"
            THEN pc' = "threw" /\ UNCHANGED results
            ELSE pc' = pc /\ results' = Append(results, out.result)
  /\ UNCHANGED <<spec, implementation, flatTests, args, ret>>

\* run(), line 90
Return ==
  /\ pc = "loop"
  /\ Len(results) = Len(flatTests)
  /\ pc' = "done"
  /\ UNCHANGED <<spec, implementation, flatTests, results, trace, args, ret>>

Next == Flatten \/ RunNext \/ Return

\* a direct call of compare(actual, expected, mode, tolerance)
Compare ==
  /\ pc = "compare"
  /\ ret = Undefined
  /\ ret' = Bool(compare(args.actual, args.expected, args.mode, args.tolerance))
  /\ UNCHANGED <<spec, implementation, pc, flatTests, results, trace, args>>

NextCompare == Compare

----------------------------------------------------------------------------
(* Inputs *)

MaxNum == 2
MaxTests == 2

Prop(k, x) == <<k, x>>
Obj1(k, x) == Obj(<<Prop(k, x)>>)
Obj2(k1, x1, k2, x2) == Obj(<<Prop(k1, x1), Prop(k2, x2)>>)

Nums == {Num(n) : n \in (-1)..MaxNum}
Leaves == Nums \cup {Str("1"), Null}
\* the leaves of containers with two elements
PairLeaves == {Num(0), Num(MaxNum), Str("1")}

Arrays(L1, L2) ==
  {Arr(<<>>)} \cup {Arr(<<x>>) : x \in L1} \cup {Arr(<<x, y>>) : x \in L2, y \in L2}

Objects(L1, L2) ==
  {Obj(<<>>)} \cup {Obj1(k, x) : k \in {"a", "b"}, x \in L1}
    \cup {Obj2("a", x, "b", y) : x \in L2, y \in L2}
    \cup {Obj2("b", x, "a", y) : x \in L2, y \in L2}

Containers1 == Arrays(Leaves, PairLeaves) \cup Objects(Leaves, PairLeaves)
\* one more level of nesting
Containers2 ==
  {Obj1("a", c) : c \in Containers1} \cup {Arr(<<c>>) : c \in Containers1}

Values == Leaves \cup Containers1 \cup Containers2

Tolerances ==
  {Num(0), Num(1), Obj(<<>>), Obj1("abs", Num(1)), Obj1("rel", Num(1)),
   Obj2("abs", Num(0), "rel", Num(1)), Obj2("abs", Num(1), "rel", Num(0)),
   Obj1("fields", Obj1("a", Num(1))),
   Obj2("abs", Num(0), "fields", Obj1("a", Obj1("abs", Num(1)))),
   Obj2("abs", Num(1), "fields", Obj1("a", Num(0)))}

NoRun ==
  /\ spec = [defaults |-> Undefined, groups |-> <<>>]
  /\ implementation = <<>>
  /\ flatTests = <<>>
  /\ results = <<>>
  /\ trace = <<>>

InitCompare ==
  /\ NoRun
  /\ pc = "compare"
  /\ ret = Undefined
  /\ args \in [actual : Values, expected : Values, mode : {"strict", "deep"},
               tolerance : {Undefined}]
           \cup [actual : Values, expected : Values, mode : {"approx"},
                 tolerance : Tolerances]

SpecCompare == InitCompare /\ [][NextCompare]_vars

----------------------------------------------------------------------------
(* Specifications and registries of the run *)

OpNames == {"f", "g"}
Inputs == {Num(0), Num(1)}

Fn(f) == [t |-> "function", v |-> f]
OpReturns(x) == [kind |-> "return", value |-> x, message |-> ""]
\* throw new Error(m)
OpThrows(m) == [kind |-> "throw", value |-> Undefined, message |-> m]
Const(o) == Fn([in \in Inputs |-> o])

Test(id, op, input, expected, cmp, tolerance, xfail, skip) ==
  [id |-> id, op |-> op, input |-> input, expected |-> expected,
   compare |-> cmp, tolerance |-> tolerance, xfail |-> xfail, skip |-> skip]

Group(name, defaults, groups, tests) ==
  [group |-> name, defaults |-> defaults, groups |-> groups, tests |-> tests]

Specification(defaults, groups) == [defaults |-> defaults, groups |-> groups]

Fresh ==
  /\ pc = "start"
  /\ flatTests = <<>>
  /\ results = <<>>
  /\ trace = <<>>
  /\ args = Undefined
  /\ ret = Undefined

\* One case with every combination of its fields, one operation that is
\* missing, fails, or returns a finite, a non-finite or no value.
CaseActuals ==
  {Undefined, Num(1), Num(2), Obj1("a", Num(1)),
   Obj2("b", Num(2), "a", Num(1)), Obj1("a", Arr(<<Obj1("b", Num(1))>>)),
   NonFinite("NaN"), Obj1("a", NonFinite("Infinity")),
   Arr(<<Num(1), NonFinite("-Infinity")>>),
   Obj1("a", Arr(<<Obj1("b", NonFinite("Infinity"))>>))}

CaseExpected ==
  {Num(1), Obj1("a", Num(1)), Obj2("a", Num(1), "b", Num(2)),
   Obj1("a", Arr(<<Obj1("b", Num(2))>>))}

CaseImpls ==
  {Undefined, Const(OpThrows("boom"))} \cup {Const(OpReturns(x)) : x \in CaseActuals}

CaseDefaults ==
  {Undefined, Obj1("compare", Str("approx")), Obj1("tolerance", Num(1))}

InitCase ==
  /\ Fresh
  /\ \E impl \in CaseImpls : implementation = [o \in OpNames |->
                                IF o = "f" THEN impl ELSE Undefined]
  /\ \E d \in CaseDefaults,
        expected \in CaseExpected,
        cmp \in {Undefined, Str("strict"), Str("deep"), Str("approx")},
        tolerance \in {Undefined, Num(0), Num(1), Obj1("abs", Num(1))},
        xfail \in {Undefined, Bool(TRUE), Bool(FALSE)},
        skip \in {Undefined, Str(""), Str("not yet")} :
       spec = Specification(d,
                <<Group("A", Undefined, Undefined,
                    Arr(<<Test("t1", "f", Num(0), expected, cmp, tolerance,
                               xfail, skip)>>))>>)

\* Up to MaxTests cases over two operations whose outcome depends on the
\* input: return, fail or go missing.
RunCases ==
  {Test("t", op, in, Num(1), Undefined, Undefined, Undefined, skip) :
     op \in OpNames, in \in Inputs, skip \in {Undefined, Str("not yet")}}

RunOutcomes ==
  {OpReturns(Num(1)), OpReturns(Num(2)), OpReturns(NonFinite("NaN")), OpThrows("boom")}

SeqsUpTo(S, n) == UNION {[1..k -> S] : k \in 0..n}

InitRun ==
  /\ Fresh
  /\ \E f \in {Undefined} \cup {Fn(h) : h \in [Inputs -> RunOutcomes]} :
       implementation = [o \in OpNames |-> IF o = "f" THEN f ELSE Undefined]
  /\ \E tests \in SeqsUpTo(RunCases, MaxTests) :
       spec = Specification(Undefined,
                <<Group("A", Undefined, Undefined, Arr(tests))>>)

\* Group trees: defaults at the root and at each of up to three levels of
\* groups, sibling groups, groups with both child groups and cases.
TreeDefaults ==
  {Undefined, Obj1("compare", Str("approx")), Obj1("tolerance", Num(1)),
   Obj2("compare", Str("deep"), "tolerance", Obj1("abs", Num(1)))}

TreeTest(i, cmp, tolerance) ==
  Test("t" \o ToString(i), "f", Num(0), Num(1), cmp, tolerance, Undefined,
       Undefined)

\* own compare and own tolerance of a case of a tree
TreeOwn ==
  {<<Undefined, Undefined>>, <<Str("deep"), Undefined>>, <<Undefined, Num(0)>>}

TreeTestSeqs ==
  {Undefined}
    \cup UNION {{Arr([i \in 1..n |-> TreeTest(i, own[i][1], own[i][2])]) :
                   own \in [1..n -> TreeOwn]} : n \in 0..MaxTests}

OnePlain == {Arr(<<TreeTest(1, Undefined, Undefined)>>)}

LeafGroups(name, testSeqs) ==
  {Group(name, d, Undefined, ts) : d \in TreeDefaults, ts \in testSeqs}

\* a group with at most one child group
ChainTrees ==
  {<<Group("A", d, kids, ts)>> :
     d \in TreeDefaults,
     kids \in {Undefined} \cup {Arr(<<l>>) : l \in LeafGroups("B", TreeTestSeqs)},
     ts \in {Undefined} \cup OnePlain}

\* sibling groups at two levels
WideTrees ==
  {<<Group("A", d, Arr(<<l1, l2>>), ts), g2>> :
     d \in TreeDefaults, l1 \in LeafGroups("B", OnePlain),
     l2 \in LeafGroups("C", OnePlain), ts \in OnePlain,
     g2 \in LeafGroups("D", OnePlain)}

\* three levels of groups
DeepTrees ==
  {<<Group("A", d1, Arr(<<Group("B", d2, Arr(<<l>>), ts)>>), ts)>> :
     d1 \in TreeDefaults, d2 \in TreeDefaults,
     l \in LeafGroups("C", OnePlain), ts \in OnePlain}

InitTree ==
  /\ Fresh
  /\ implementation = [o \in OpNames |->
                         IF o = "f" THEN Const(OpReturns(Num(1))) ELSE Undefined]
  /\ \E d \in TreeDefaults, groups \in ChainTrees \cup WideTrees \cup DeepTrees :
       spec = Specification(d, groups)

Init == InitCase \/ InitRun \/ InitTree

Spec == Init /\ [][Next]_vars

----------------------------------------------------------------------------
(* Claims about the comparator, under SpecCompare *)

Compared == pc = "compare" /\ ret # Undefined

PropNames(x) == {x.v[i][1] : i \in 1..Len(x.v)}

\* |a - b| against each bound of a structured tolerance
AbsBoundHolds(a, b, tol) == Abs(a.v - b.v) <= Get(tol, "abs").v
RelBoundHolds(a, b, tol) == Abs(a.v - b.v) <= Abs(b.v) * Get(tol, "rel").v
HasAbs(tol) == Get(tol, "abs") # Undefined
HasRel(tol) == Get(tol, "rel") # Undefined

NumbersUnderStructured ==
  /\ Compared
  /\ args.mode = "approx"
  /\ args.tolerance.t = "object"
  /\ args.actual.t = "number"
  /\ args.expected.t = "number"

\* C7 as stated: two numbers under a structured tolerance match when the
\* absolute bound holds or the relative bound holds; with both present, one
\* satisfied bound is enough, and only the violation of every present bound
\* fails the comparison.
C7_EitherBoundSuffices ==
  NumbersUnderStructured /\ (HasAbs(args.tolerance) \/ HasRel(args.tolerance)) =>
    (ret.v <=>
       \/ HasAbs(args.tolerance)
          /\ AbsBoundHolds(args.actual, args.expected, args.tolerance)
       \/ HasRel(args.tolerance)
          /\ RelBoundHolds(args.actual, args.expected, args.tolerance))

\* C7 amended: two numbers under a structured tolerance match iff every
\* present bound holds (abs absent or |a-b| <= abs, and rel absent or
\* |a-b| <= |b|*rel); with both present and only one satisfied they mismatch.
C7_EveryPresentBound ==
  NumbersUnderStructured =>
    (ret.v <=>
       /\ HasAbs(args.tolerance)
          => AbsBoundHolds(args.actual, args.expected, args.tolerance)
       /\ HasRel(args.tolerance)
          => RelBoundHolds(args.actual, args.expected, args.tolerance))

\* both bounds present, exactly one satisfied, and the comparison has failed
C7_Witness ==
  /\ NumbersUnderStructured
  /\ HasAbs(args.tolerance) /\ HasRel(args.tolerance)
  /\ AbsBoundHolds(args.actual, args.expected, args.tolerance)
       # RelBoundHolds(args.actual, args.expected, args.tolerance)
  /\ ret = Bool(FALSE)

RECURSIVE TolerantDeep(_, _, _)
\* deep equality whose numeric leaves, at every depth, are compared with the
\* tolerance: fields[key] if present for the leaves under key, else the
\* ambient tolerance
TolerantDeep(a, b, tol) ==
  IF a.t = "number" /\ b.t = "number"
  THEN approxEqual(a, b, tol)
  ELSE IF IsObjectLike(a) /\ IsObjectLike(b)
  THEN LET keysA == SortedKeys(a)
           under(key) ==
             IF tol.t = "object" /\ ~Nullish(Get(tol, "fields"))
                /\ ~Nullish(Get(Get(tol, "fields"), key))
             THEN Get(Get(tol, "fields"), key)
             ELSE tol
       IN  /\ SameKeys(keysA, SortedKeys(b))
           /\ \A i \in 1..Len(keysA) :
                TolerantDeep(Get(a, keysA[i]), Get(b, keysA[i]), under(keysA[i]))
  ELSE deepEqual(a, b)

\* C8: approx is deep equality with every pair of corresponding numeric
\* leaves, at any nesting depth, compared with the tolerance, for a plain
\* number and for a structured tolerance alike (here: one that states a
\* bound of its own).
C8_TolerantAtEveryDepth ==
  /\ Compared
  /\ args.mode = "approx"
  /\ args.tolerance.t = "object"
       => HasAbs(args.tolerance) \/ HasRel(args.tolerance)
  => ret.v = TolerantDeep(args.actual, args.expected, args.tolerance)

\* C9: strict equality is identity of the serializations, hence of the values
\* with their key order, so that reordered keys mismatch; deep equality of two
\* objects is equality of the key sets with deep-equal values per key, and of
\* two sequences equality of the lengths with deep-equal elements in order.
C9_StrictOrderedDeepUnordered ==
  Compared =>
    LET a == args.actual
        b == args.expected
    IN  /\ args.mode = "strict" =>
             /\ ret.v <=> (JSONstringify(a).v = JSONstringify(b).v)
             /\ ret.v <=> (a = b)
        /\ args.mode = "deep" /\ a.t = "object" /\ b.t = "object" =>
             (ret.v <=>
                /\ PropNames(a) = PropNames(b)
                /\ \A k \in PropNames(a) : deepEqual(Get(a, k), Get(b, k)))
        /\ args.mode = "deep" /\ a.t = "array" /\ b.t = "array" =>
             (ret.v <=>
                /\ Len(a.v) = Len(b.v)
                /\ \A i \in 1..Len(a.v) : deepEqual(a.v[i], b.v[i]))

\* two objects with the same properties in a different order have been
\* compared under strict, and mismatch, though they are deep-equal
C9_Witness ==
  /\ Compared
  /\ args.mode = "strict"
  /\ args.actual.t = "object" /\ args.expected.t = "object"
  /\ args.actual # args.expected
  /\ deepEqual(args.actual, args.expected)
  /\ Len(args.actual.v) = 2
  /\ ret = Bool(FALSE)

----------------------------------------------------------------------------
(* The cases of a specification, by their place in the group tree *)

\* child groups and own cases of a group, none when the key is absent
ChildGroups(g) == IF g.groups = Undefined THEN <<>> ELSE g.groups.v
OwnTests(g) == IF g.tests = Undefined THEN <<>> ELSE g.tests.v

RECURSIVE Places(_)
\* the place of a case: the indices g of the groups leading to it from the top
\* level, and its index t among the cases of the last of them
Places(groups) ==
  UNION {{[g |-> <<i>>, t |-> j] : j \in 1..Len(OwnTests(groups[i]))}
           \cup {[g |-> <<i>> \o p.g, t |-> p.t] :
                   p \in Places(ChildGroups(groups[i]))} :
         i \in 1..Len(groups)}

RECURSIVE GroupAt(_, _)
GroupAt(groups, g) ==
  IF Len(g) = 1 THEN groups[g[1]]
  ELSE GroupAt(ChildGroups(groups[g[1]]), Tail(g))

\* the n-th group on the way to place p
Ancestor(p, n) == GroupAt(spec.groups, SubSeq(p.g, 1, n))
CaseAt(p) == OwnTests(Ancestor(p, Len(p.g)))[p.t]

IsPrefix(g, h) == Len(g) < Len(h) /\ SubSeq(h, 1, Len(g)) = g

\* document order, the cases of a group's descendants before its own
Before(p, q) ==
  IF p.g = q.g THEN p.t < q.t
  ELSE IF IsPrefix(p.g, q.g) THEN FALSE
  ELSE IF IsPrefix(q.g, p.g) THEN TRUE
  ELSE LET d == CHOOSE n \in 1..Len(p.g) :
                  /\ p.g[n] # q.g[n]
                  /\ \A m \in 1..(n - 1) : p.g[m] = q.g[m]
       IN  p.g[d] < q.g[d]

AllPlaces == Places(spec.groups)
Rank(p) == 1 + Cardinality({q \in AllPlaces : Before(q, p)})

Has(defaults, field) == defaults # Undefined /\ Get(defaults, field) # Undefined

\* the value of a field of the defaults nearest to place p: of the innermost
\* ancestor group that defines it, else of the root, else undefined
NearestDefault(p, field) ==
  LET defining == {n \in 1..Len(p.g) : Has(Ancestor(p, n).defaults, field)}
  IN  IF defining # {}
      THEN Get(Ancestor(p, CHOOSE n \in defining : \A m \in defining : m <= n)
                 .defaults, field)
      ELSE IF Has(spec.defaults, field) THEN Get(spec.defaults, field)
      ELSE Undefined

EffectiveCompare(p) ==
  IF CaseAt(p).compare # Undefined THEN CaseAt(p).compare
  ELSE IF NearestDefault(p, "compare") # Undefined THEN NearestDefault(p, "compare")
  ELSE Str("strict")

EffectiveTolerance(p) ==
  IF CaseAt(p).tolerance # Undefined THEN CaseAt(p).tolerance
  ELSE NearestDefault(p, "tolerance")

Flattened == pc # "start"

\* the fields of a case, as kept in its resolved case
SameCase(flat, test) ==
  /\ flat.id = test.id /\ flat.op = test.op /\ flat.input = test.input
  /\ flat.expected = test.expected /\ flat.compare = test.compare
  /\ flat.tolerance = test.tolerance /\ flat.xfail = test.xfail
  /\ flat.skip = test.skip

\* C5: the resolved compare mode is the case's own, else the nearest defining
\* ancestor group's, else the root's, else strict; the resolved tolerance is
\* the case's own, else the nearest defining ancestor group's, else the
\* root's, else absent; each is inherited on its own, from ancestors only.
C5_DefaultInheritance ==
  Flattened =>
    /\ Len(flatTests) = Cardinality(AllPlaces)
    /\ \A p \in AllPlaces :
         /\ flatTests[Rank(p)].resolvedCompare = EffectiveCompare(p)
         /\ flatTests[Rank(p)].resolvedTolerance = EffectiveTolerance(p)

\* a case takes its compare mode from one group and its tolerance from
\* another, and a sibling group of its parent defines other defaults
C5_Witness ==
  /\ Flattened
  /\ \E p \in AllPlaces :
       /\ Len(p.g) = 2
       /\ CaseAt(p).compare = Undefined /\ CaseAt(p).tolerance = Undefined
       /\ Has(Ancestor(p, 1).defaults, "compare")
       /\ ~Has(Ancestor(p, 2).defaults, "compare")
       /\ Has(Ancestor(p, 2).defaults, "tolerance")
       /\ flatTests[Rank(p)].resolvedCompare = Get(Ancestor(p, 1).defaults, "compare")
       /\ flatTests[Rank(p)].resolvedTolerance
            = Get(Ancestor(p, 2).defaults, "tolerance")
       /\ \E q \in AllPlaces :
            /\ Len(q.g) = 2 /\ q.g[1] = p.g[1] /\ q.g[2] # p.g[2]
            /\ Has(Ancestor(q, 2).defaults, "compare")
            /\ Get(Ancestor(q, 2).defaults, "tolerance")
                 # flatTests[Rank(p)].resolvedTolerance

\* C6: flattening yields one resolved case per case of the tree, in document
\* order with the cases of a group's descendants before its own, each with
\* the names of the groups from the top level down to its parent as groupPath.
C6_FlatteningOrder ==
  Flattened =>
    /\ Len(flatTests) = Cardinality(AllPlaces)
    /\ \A p \in AllPlaces :
         /\ Rank(p) \in 1..Len(flatTests)
         /\ \A q \in AllPlaces : Rank(q) = Rank(p) => q = p
         /\ SameCase(flatTests[Rank(p)], CaseAt(p))
         /\ flatTests[Rank(p)].groupPath
              = [n \in 1..Len(p.g) |-> Ancestor(p, n).group]

\* a group with a case of its own and two child groups with cases has been
\* flattened: the children's cases first, in order, then its own, then the
\* next top-level group's
C6_Witness ==
  /\ Flattened
  /\ Len(spec.groups) = 2
  /\ Len(flatTests) = 4
  /\ flatTests[1].groupPath = <<"A", "B">>
  /\ flatTests[2].groupPath = <<"A", "C">>
  /\ flatTests[3].groupPath = <<"A">>
  /\ flatTests[4].groupPath = <<"D">>

----------------------------------------------------------------------------
(* Claims about the evaluator, under Spec *)

\* the places whose case has a verdict
Judged == IF Flattened /\ Len(flatTests) = Cardinality(AllPlaces)
          THEN {p \in AllPlaces : Rank(p) <= Len(results)}
          ELSE {}

ResultAt(p) == results[Rank(p)]

\* the registry accesses made for the case at place p
EventsAt(p, kind) ==
  {k \in 1..Len(trace) : trace[k].case = Rank(p) /\ trace[k].event = kind}

OpExists(p) == implementation[CaseAt(p).op] # Undefined
Outcome(p) == implementation[CaseAt(p).op].v[CaseAt(p).input]
OpReturned(p) == OpExists(p) /\ Outcome(p).kind = "return"

RECURSIVE ContainsNonFinite(_)
\* NaN or an infinity, at any depth of the elements and property values
ContainsNonFinite(x) ==
  \/ x.t = "nonfinite"
  \/ x.t = "array" /\ \E i \in 1..Len(x.v) : ContainsNonFinite(x.v[i])
  \/ x.t = "object" /\ \E i \in 1..Len(x.v) : ContainsNonFinite(x.v[i][2])

RECURSIVE NonFiniteDepth(_)
\* the least number of containers around a non-finite number of x
NonFiniteDepth(x) ==
  IF x.t = "nonfinite" THEN 0
  ELSE LET kids == {k \in {ObjectValues(x)[i] : i \in 1..Len(x.v)} :
                      ContainsNonFinite(k)}
           d == {NonFiniteDepth(k) : k \in kids}
       IN  1 + CHOOSE n \in d : \A m \in d : n <= m

Contains(s, sub) ==
  \E i \in 1..(Len(s) - Len(sub) + 1) : SubSeq(s, i, i + Len(sub) - 1) = sub

SpecialValueMessage ==
  Str("Implementation returned NaN or Infinity (forbidden in GCSF v1)")

\* C1 as stated: a case whose skip field is present, whatever the string, gets
\* SKIP with the skip reason as message, whether or not its operation exists,
\* and its operation is neither looked up nor invoked.
C1_SkipPresentSkips ==
  \A p \in Judged :
    CaseAt(p).skip # Undefined =>
      /\ ResultAt(p).status = "SKIP"
      /\ ResultAt(p).message = CaseAt(p).skip
      /\ EventsAt(p, "lookup") = {} /\ EventsAt(p, "invoke") = {}

\* C2: a case without skip whose operation exists and returns a value that
\* contains a non-finite number at any depth gets ERROR with the fixed
\* message, whatever expected, compare mode, tolerance and xfail are.
C2_SpecialValueRejected ==
  \A p \in Judged :
    CaseAt(p).skip = Undefined /\ OpReturned(p)
      /\ ContainsNonFinite(Outcome(p).value) =>
        /\ ResultAt(p).status = "ERROR"
        /\ ResultAt(p).message = SpecialValueMessage

\* a non-finite number two containers down, under xfail and a mode and
\* expected value that are present, has been rejected
C2_Witness ==
  \E p \in Judged :
    /\ CaseAt(p).skip = Undefined /\ OpReturned(p)
    /\ ContainsNonFinite(Outcome(p).value)
    /\ NonFiniteDepth(Outcome(p).value) >= 2
    /\ CaseAt(p).xfail = Bool(TRUE)
    /\ EffectiveCompare(p) = Str("deep")
    /\ ResultAt(p).status = "ERROR"
    /\ ResultAt(p).message = SpecialValueMessage

\* C3: a case without skip whose effective compare mode is approx, with no
\* tolerance of its own, of an ancestor group or of the root, gets ERROR,
\* whatever the operation does and whatever xfail is.
C3_ApproxNeedsTolerance ==
  \A p \in Judged :
    CaseAt(p).skip = Undefined /\ EffectiveCompare(p) = Str("approx")
      /\ EffectiveTolerance(p) = Undefined =>
        ResultAt(p).status = "ERROR"

\* the operation returned exactly the expected number, approx is inherited
\* and no tolerance is set anywhere: ERROR, for the missing tolerance
C3_Witness ==
  \E p \in Judged :
    /\ CaseAt(p).skip = Undefined
    /\ CaseAt(p).compare = Undefined
    /\ EffectiveCompare(p) = Str("approx")
    /\ EffectiveTolerance(p) = Undefined
    /\ OpReturned(p) /\ Outcome(p).value = CaseAt(p).expected
    /\ Outcome(p).value.t = "number"
    /\ ResultAt(p).status = "ERROR"
    /\ ResultAt(p).message = Str("compare=\"approx\" requires tolerance to be set")

\* the case at p reaches the comparison
ReachesComparison(p) ==
  /\ CaseAt(p).skip = Undefined
  /\ OpReturned(p)
  /\ ~ContainsNonFinite(Outcome(p).value)
  /\ EffectiveCompare(p) = Str("approx") => EffectiveTolerance(p) # Undefined

Matches(p) ==
  compare(Outcome(p).value, CaseAt(p).expected, EffectiveCompare(p).v,
          EffectiveTolerance(p))

\* C4: a case that reaches the comparison gets PASS iff the comparison
\* matches xor xfail is true, and FAIL otherwise; a FAIL message reports the
\* expected and the actual value.
C4_XfailInversion ==
  \A p \in Judged :
    ReachesComparison(p) =>
      /\ ResultAt(p).status
           = IF Matches(p) # (CaseAt(p).xfail = Bool(TRUE)) THEN "PASS" ELSE "FAIL"
      /\ ResultAt(p).status = "FAIL" =>
           /\ ResultAt(p).message.t = "string"
           /\ Contains(ResultAt(p).message.v,
                       Template(JSONstringify(CaseAt(p).expected)))
           /\ Contains(ResultAt(p).message.v,
                       Template(JSONstringify(Outcome(p).value)))

\* a match under xfail has been judged FAIL, with both values in the message
C4_Witness ==
  \E p \in Judged :
    /\ ReachesComparison(p)
    /\ CaseAt(p).xfail = Bool(TRUE)
    /\ Matches(p)
    /\ ResultAt(p).status = "FAIL"
    /\ ResultAt(p).message = Str("Expected {\"a\":1}, got {\"a\":1}")

\* C10: the run never ends by an exception, can take a step until it is done
\* (the guard of Flatten, RunNext or Return holds) and is done only when every
\* flattened case has its verdict, the verdicts in flattened order; a missing
\* operation or a failing invocation gives that case ERROR without actual
\* value (the failure's description in the message), an operation is invoked
\* at most once per case, and the verdict of a case does not depend on the
\* cases before it.
C10_ErrorIsolation ==
  /\ pc \in {"start", "loop", "done"}
  /\ pc # "done" =>
       \/ pc = "start"
       \/ pc = "loop" /\ Len(results) <= Len(flatTests)
  /\ pc = "done" => Len(results) = Len(flatTests)
  /\ Len(results) <= Len(flatTests)
  /\ \A i \in 1..Len(results) : results[i].test = flatTests[i]
  /\ \A p \in Judged :
       /\ Cardinality(EventsAt(p, "invoke")) <= 1
       /\ CaseAt(p).skip = Undefined /\ ~OpExists(p) =>
            /\ ResultAt(p).status = "ERROR"
            /\ ResultAt(p).actual = Undefined
            /\ EventsAt(p, "invoke") = {}
       /\ CaseAt(p).skip = Undefined /\ OpExists(p) /\ Outcome(p).kind = "throw" =>
            /\ ResultAt(p).status = "ERROR"
            /\ ResultAt(p).actual = Undefined
            /\ Contains(ResultAt(p).message.v, Outcome(p).message)
       /\ \A q \in Judged :
            CaseAt(q) = CaseAt(p) /\ q.g = p.g => ResultAt(q) = ResultAt(p)

\* the run is done: its first case failed when invoked and got ERROR, and a
\* later case was still invoked and passed
C10_Witness ==
  /\ pc = "done"
  /\ Len(results) >= 2
  /\ results[1].status = "ERROR"
  /\ results[1].message = Str("Exception: boom")
  /\ results[Len(results)].status = "PASS"
  /\ \E k \in 1..Len(trace) :
       trace[k].case = Len(results) /\ trace[k].event = "invoke"

----------------------------------------------------------------------------
(* Reporting: runner.printResults(results), called with the results of a run *)

\* results.filter((r) => r.status === status).length
CountStatus(rs, status) == Len(SelectSeq(rs, LAMBDA r : r.status = status))

\* a mutant of printResults: only failures make a run unsuccessful
printResults_failuresOnly(rs) == CountStatus(rs, "FAIL") = 0

\* the value printResults returns; what it prints is not modelled
printResults(rs) ==
  LET passed == CountStatus(rs, "PASS")
      failed == CountStatus(rs, "FAIL")
      skipped == CountStatus(rs, "SKIP")
      errors == CountStatus(rs, "ERROR")
  IN  failed = 0 /\ errors = 0

\* const success = runner.printResults(results)
PrintResults ==
  /\ pc = "print"
  /\ ret = Undefined
  /\ ret' = Bool(printResults(results))
  /\ UNCHANGED <<spec, implementation, pc, flatTests, results, trace, args>>

NextPrint == PrintResults

MaxResults == 4

Statuses == {"PASS", "FAIL", "SKIP", "ERROR"}

\* any sequence of up to MaxResults verdicts, of one resolved case
InitPrint ==
  /\ spec = [defaults |-> Undefined, groups |-> <<>>]
  /\ implementation = <<>>
  /\ flatTests = <<>>
  /\ trace = <<>>
  /\ args = Undefined
  /\ ret = Undefined
  /\ pc = "print"
  /\ \E statuses \in SeqsUpTo(Statuses, MaxResults) :
       results = [i \in 1..Len(statuses) |->
                    TestResult(resolveTest(TreeTest(i, Undefined, Undefined),
                                           <<"A">>, Undefined),
                               statuses[i], Undefined, Undefined)]

SpecPrint == InitPrint /\ [][NextPrint]_vars

Printed == pc = "print" /\ ret # Undefined

\* C11: the success value returned for a sequence of verdicts is true iff no
\* verdict is FAIL and none is ERROR; SKIP and PASS verdicts do not count, so
\* an empty run and a run of SKIP verdicts only are successful.
C11_OverallSuccess ==
  Printed =>
    /\ ret.v <=> \A i \in 1..Len(results) : results[i].status \notin {"FAIL", "ERROR"}
    /\ (\A i \in 1..Len(results) : results[i].status \in {"SKIP", "PASS"})
         => ret = Bool(TRUE)

\* a run of SKIP verdicts only has been reported successful
C11_Witness ==
  /\ Printed
  /\ Len(results) >= 2
  /\ \A i \in 1..Len(results) : results[i].status = "SKIP"
  /\ ret = Bool(TRUE)

----------------------------------------------------------------------------
(* Per-field tolerance, under SpecCompare *)

ObjectsUnderStructured ==
  /\ Compared
  /\ args.mode = "approx"
  /\ args.tolerance.t = "object"
  /\ args.actual.t = "object"
  /\ args.expected.t = "object"
  /\ PropNames(args.actual) = PropNames(args.expected)

\* fields[key] if that entry is present, else the ambient tolerance
FieldTolerance(tol, key) ==
  IF Get(tol, "fields") # Undefined /\ Get(Get(tol, "fields"), key) # Undefined
  THEN Get(Get(tol, "fields"), key)
  ELSE tol

\* C12: two objects under a structured tolerance match iff each field
\* matches under its own tolerance, fields[key] when present (a number or a
\* nested structured tolerance) and the ambient tolerance otherwise, so that
\* the tolerance of one field has no effect on another (here: each field's
\* tolerance states a bound).
C12_PerFieldTolerance ==
  /\ ObjectsUnderStructured
  /\ \A key \in PropNames(args.actual) :
       LET ft == FieldTolerance(args.tolerance, key)
       IN  ft.t = "number" \/ HasAbs(ft) \/ HasRel(ft)
  =>
    (ret.v <=>
       \A key \in PropNames(args.actual) :
         TolerantDeep(Get(args.actual, key), Get(args.expected, key),
                      FieldTolerance(args.tolerance, key)))

\* The part of C12 that the runner meets: when every field of the two objects
\* is a number, each is compared with fields[key] if present and with the
\* ambient tolerance otherwise.
C12_NumericFields ==
  /\ ObjectsUnderStructured
  /\ \A key \in PropNames(args.actual) :
       Get(args.actual, key).t = "number" /\ Get(args.expected, key).t = "number"
  => (ret.v <=>
        \A key \in PropNames(args.actual) :
          LET ft == FieldTolerance(args.tolerance, key)
              d == Abs(Get(args.actual, key).v - Get(args.expected, key).v)
          IN  IF ft.t = "number" THEN d <= ft.v
              ELSE /\ HasAbs(ft) => d <= Get(ft, "abs").v
                   /\ HasRel(ft)
                        => d <= Abs(Get(args.expected, key).v) * Get(ft, "rel").v)

\* field a has a tolerance of its own and there is no ambient bound: the
\* difference of its sibling b, larger than a's tolerance, still matches
C12_NumericWitness ==
  /\ ObjectsUnderStructured
  /\ PropNames(args.actual) = {"a", "b"}
  /\ Get(args.actual, "a") = Num(0) /\ Get(args.expected, "a") = Num(0)
  /\ Get(args.actual, "b") = Num(0) /\ Get(args.expected, "b") = Num(MaxNum)
  /\ FieldTolerance(args.tolerance, "a") = Num(1)
  /\ ~HasAbs(args.tolerance) /\ ~HasRel(args.tolerance)
  /\ ret = Bool(TRUE)

====
